---- MODULE Spec2Model ----
(***************************************************************************)
(* lx-pathway-plugin: opaque keys of LabXchange pathways (keys.py), the    *)
(* Pathway record with its draft and published documents (models.py), the  *)
(* REST handlers that create, change, publish and revert a pathway         *)
(* (views.py) and the pathway learning context (pathway_context.py).       *)
(*                                                                         *)
(* Strings that the key codec takes apart are sequences of one-character   *)
(* strings.  An optional value (Python None or a value) is a sequence of   *)
(* length 0 or 1.                                                          *)
(***************************************************************************)
EXTENDS Integers, Sequences, FiniteSets, TLC

None == <<>>
Some(x) == <<x>>

(***************************************************************************)
(* Characters and strings                                                  *)
(***************************************************************************)
Digits == {"0", "1", "2", "3", "4", "5", "6", "7", "8", "9"}
LowerHexLetters == {"a", "b", "c", "d", "e", "f"}
UpperHexLetters == {"A", "B", "C", "D", "E", "F"}
LowerAscii == LowerHexLetters \cup
    {"g", "h", "i", "j", "k", "l", "m", "n", "o", "p", "q", "r", "s", "t",
     "u", "v", "w", "x", "y", "z"}
UpperAscii == UpperHexLetters \cup
    {"G", "H", "I", "J", "K", "L", "M", "N", "O", "P", "Q", "R", "S", "T",
     "U", "V", "W", "X", "Y", "Z"}
\* A sample of the word characters outside ASCII that re.UNICODE admits: the
\* one-character string U+00E9 (e with acute accent), written by its code point.
UnicodeLetters == {"U+00E9"}
HexDigits == Digits \cup LowerHexLetters \cup UpperHexLetters

\* The character class [a-zA-Z0-9_\-.] of CheckFieldMixin's default regexp.
DEFAULT_REGEXP == Digits \cup LowerAscii \cup UpperAscii \cup {"_", "-", "."}
\* The character class [\w\-.] of USAGE_ID_REGEXP, compiled with re.UNICODE.
USAGE_ID_REGEXP == DEFAULT_REGEXP \cup UnicodeLetters

Rep(c, n) == [i \in 1..n |-> c]

Lower(c) ==
    CASE c = "A" -> "a" [] c = "B" -> "b" [] c = "C" -> "c"
      [] c = "D" -> "d" [] c = "E" -> "e" [] c = "F" -> "f"
      [] OTHER -> c

\* str.split(':')
RECURSIVE Split(_)
Split(s) ==
    IF \A i \in 1..Len(s) : s[i] # ":"
    THEN <<s>>
    ELSE LET i == CHOOSE k \in 1..Len(s) :
                      s[k] = ":" /\ \A j \in 1..(k - 1) : s[j] # ":"
         IN  <<SubSeq(s, 1, i - 1)>> \o Split(SubSeq(s, i + 1, Len(s)))

\* ":".join(parts)
RECURSIVE Join(_)
Join(parts) ==
    IF Len(parts) = 0 THEN <<>>
    ELSE IF Len(parts) = 1 THEN parts[1]
    ELSE parts[1] \o <<":">> \o Join(Tail(parts))

\* str.replace(pat, ''): every occurrence of pat removed, scanning from the left.
RECURSIVE RemoveAll(_, _)
RemoveAll(s, pat) ==
    IF Len(s) < Len(pat) THEN s
    ELSE IF SubSeq(s, 1, Len(pat)) = pat
         THEN RemoveAll(SubSeq(s, Len(pat) + 1, Len(s)), pat)
         ELSE <<s[1]>> \o RemoveAll(Tail(s), pat)

\* str.strip('{}'): braces removed from both ends.
RECURSIVE StripBraces(_)
StripBraces(s) ==
    IF Len(s) > 0 /\ s[1] \in {"{", "}"} THEN StripBraces(Tail(s))
    ELSE IF Len(s) > 0 /\ s[Len(s)] \in {"{", "}"}
         THEN StripBraces(SubSeq(s, 1, Len(s) - 1))
         ELSE s

\* re.match(r'^[chars]+$', value): '$' also matches before one final newline.
RegexpMatch(chars, value) ==
    LET body == IF Len(value) > 0 /\ value[Len(value)] = "\n"
                THEN SubSeq(value, 1, Len(value) - 1)
                ELSE value
    IN  Len(body) > 0 /\ \A i \in 1..Len(body) : body[i] \in chars

(***************************************************************************)
(* Outcomes of a call: a value, or the exception it raised.                *)
(***************************************************************************)
Ok(v) == [ok |-> TRUE, val |-> v]
Raise(e) == [ok |-> FALSE, exc |-> e]

(***************************************************************************)
(* uuid.UUID: the 32 hex digits of the value, lowercased, stand for the    *)
(* 128-bit integer.                                                        *)
(***************************************************************************)
UUID_GROUPS == <<8, 4, 4, 4, 12>>
UuidHexLen == UUID_GROUPS[1] + UUID_GROUPS[2] + UUID_GROUPS[3] + UUID_GROUPS[4] + UUID_GROUPS[5]

\* UUID(hex): ValueError unless 32 hex digits remain once 'urn:', 'uuid:',
\* the braces and every hyphen are removed.
UUID(uuid_str) ==
    LET hex == RemoveAll(StripBraces(RemoveAll(RemoveAll(uuid_str,
                   <<"u", "r", "n", ":">>), <<"u", "u", "i", "d", ":">>)), <<"-">>)
    IN  IF Len(hex) # UuidHexLen THEN Raise("ValueError")
        ELSE IF \E i \in 1..Len(hex) : hex[i] \notin HexDigits THEN Raise("ValueError")
        ELSE Ok([i \in 1..Len(hex) |-> Lower(hex[i])])

\* str(uuid): the hyphenated lowercase form 8-4-4-4-12.
UuidStr(u) ==
    SubSeq(u, 1, 8) \o <<"-">> \o SubSeq(u, 9, 12) \o <<"-">> \o SubSeq(u, 13, 16)
        \o <<"-">> \o SubSeq(u, 17, 20) \o <<"-">> \o SubSeq(u, 21, 32)

(***************************************************************************)
(* keys.py: PathwayLocator                                                 *)
(***************************************************************************)
\* PathwayLocator(uuid=<UUID object>): isinstance(uuid, UUID), taken as is.
PathwayLocatorFromUUID(uuid) == Ok([uuid |-> uuid])

\* The same constructor without the comparison against the standard form.
PathwayLocatorInitNoStandardForm(uuid_str) ==
    LET uuid == UUID(uuid_str)
    IN  IF ~uuid.ok THEN uuid ELSE Ok([uuid |-> uuid.val])

\* PathwayLocator(uuid=<string>)
PathwayLocatorInit(uuid_str) ==
    LET uuid == UUID(uuid_str)
    IN  IF ~uuid.ok THEN uuid
        ELSE IF uuid_str # UuidStr(uuid.val) THEN Raise("InvalidKeyError")
        ELSE Ok([uuid |-> uuid.val])

PathwayLocator_to_string(key) == UuidStr(key.uuid)

PathwayLocator_from_string(serialized) ==
    LET r == PathwayLocatorInit(serialized)
    IN  IF ~r.ok /\ r.exc \in {"ValueError", "TypeError"}
        THEN Raise("InvalidKeyError")
        ELSE r

(***************************************************************************)
(* keys.py: PathwayUsageLocator                                            *)
(***************************************************************************)
\* CheckFieldMixin._check_key_string_field: TRUE when the value passes,
\* FALSE when it raises ValueError.
CheckKeyStringField(value, regexp) ==
    ~(Len(value) = 0 \/ ~RegexpMatch(regexp, value))

PathwayUsageLocatorInit(pathway_key, block_type, usage_id, child_usage_id) ==
    IF ~CheckKeyStringField(block_type, DEFAULT_REGEXP) THEN Raise("ValueError")
    ELSE IF ~CheckKeyStringField(usage_id, USAGE_ID_REGEXP) THEN Raise("ValueError")
    ELSE IF child_usage_id # None /\ ~CheckKeyStringField(usage_id, USAGE_ID_REGEXP)
         THEN Raise("ValueError")
    ELSE Ok([pathway_key |-> pathway_key, block_type |-> block_type,
             usage_id |-> usage_id, child_usage_id |-> child_usage_id])

PathwayUsageLocator_to_string(key) ==
    LET parts == <<UuidStr(key.pathway_key.uuid), key.block_type, key.usage_id>>
    IN  IF key.child_usage_id # None /\ Len(key.child_usage_id[1]) > 0
        THEN Join(Append(parts, key.child_usage_id[1]))
        ELSE Join(parts)

\* The same parser accepting one segment more.
PathwayUsageLocator_from_string_5(serialized) ==
    LET parts == Split(serialized)
    IN  IF Len(parts) < 3 \/ Len(parts) > 5 THEN Raise("InvalidKeyError")
        ELSE LET pathway_key == PathwayLocatorInit(parts[1])
                 child_usage_id == IF Len(parts) >= 4 THEN Some(parts[4]) ELSE None
             IN  IF ~pathway_key.ok THEN pathway_key
                 ELSE PathwayUsageLocatorInit(pathway_key.val, parts[2], parts[3],
                                              child_usage_id)

PathwayUsageLocator_from_string(serialized) ==
    LET parts == Split(serialized)
    IN  IF Len(parts) < 3 \/ Len(parts) > 4 THEN Raise("InvalidKeyError")
        ELSE LET pathway_key == PathwayLocatorInit(parts[1])
                 child_usage_id == IF Len(parts) >= 4 THEN Some(parts[4]) ELSE None
             IN  IF ~pathway_key.ok THEN pathway_key
                 ELSE PathwayUsageLocatorInit(pathway_key.val, parts[2], parts[3],
                                              child_usage_id)

(***************************************************************************)
(* pathway_context.py: PathwayContextImpl.usage_for_child_include          *)
(***************************************************************************)
\* The same method keeping the child_usage_id of a parent that has one.
UsageForChildIncludeKeepsDescendant(parent_usage, parsed_include) ==
    IF parsed_include.link_id # None /\ Len(parsed_include.link_id[1]) > 0
    THEN Raise("NotImplementedError")
    ELSE PathwayUsageLocatorInit(parent_usage.pathway_key,
                                 parsed_include.block_type,
                                 parent_usage.usage_id,
                                 IF parent_usage.child_usage_id # None
                                 THEN parent_usage.child_usage_id
                                 ELSE Some(parsed_include.definition_id))

\* usage_for_child_include(parent_usage, parent_definition, parsed_include);
\* parent_definition is not used.
UsageForChildInclude(parent_usage, parsed_include) ==
    IF parsed_include.link_id # None /\ Len(parsed_include.link_id[1]) > 0
    THEN Raise("NotImplementedError")
    ELSE PathwayUsageLocatorInit(parent_usage.pathway_key,
                                 parsed_include.block_type,
                                 parent_usage.usage_id,
                                 Some(parsed_include.definition_id))

(***************************************************************************)
(* Key strings given to the codec                                          *)
(***************************************************************************)
\* 00000000-e4fe-47af-8ff6-123456789000, the key of tests/test_keys.py
CanonicalUuid ==
    Rep("0", 8) \o <<"-", "e", "4", "f", "e", "-", "4", "7", "a", "f", "-",
                     "8", "f", "f", "6", "-", "1", "2", "3", "4", "5", "6",
                     "7", "8", "9", "0", "0", "0">>
\* b0fd731a-5bab-4fe2-8491-405292e5176e, the UUID of test_pathway_create_with_uuid
ChosenUuid ==
    <<"b", "0", "f", "d", "7", "3", "1", "a", "-", "5", "b", "a", "b", "-",
      "4", "f", "e", "2", "-", "8", "4", "9", "1", "-", "4", "0", "5", "2",
      "9", "2", "e", "5", "1", "7", "6", "e">>
UpperUuid == [CanonicalUuid EXCEPT ![10] = "E", ![12] = "F", ![13] = "E"]
NoHyphenUuid == RemoveAll(CanonicalUuid, <<"-">>)
BracedUuid == <<"{">> \o CanonicalUuid \o <<"}">>
UrnUuid == <<"u", "r", "n", ":", "u", "u", "i", "d", ":">> \o CanonicalUuid
ShortUuid == Rep("0", 8)
NonHexUuid == [CanonicalUuid EXCEPT ![1] = "z"]
\* 00000000-0000-0000-0000-000000000000X of the spec's rejection example
TrailingXUuid == Rep("0", 8) \o <<"-">> \o Rep("0", 4) \o <<"-">> \o Rep("0", 4)
                    \o <<"-">> \o Rep("0", 4) \o <<"-">> \o Rep("0", 12) \o <<"X">>

UuidPool == {CanonicalUuid, ChosenUuid, UpperUuid, NoHyphenUuid, BracedUuid,
             ShortUuid, NonHexUuid, TrailingXUuid}
UuidValues == {UUID(CanonicalUuid).val, UUID(ChosenUuid).val}

FieldPool == {<<"u", "n", "i", "t">>, <<"1", "-", "2">>, <<>>, <<"t", "y", " ", "p", "e">>,
              <<"U+00E9">>, <<"a", "/", "b">>}

\* The longest key string has a UUID segment and MaxFields further segments.
MaxFields == 4

FieldSeqs == UNION {[1..n -> FieldPool] : n \in 0..MaxFields}
KeyInputs == {Join(<<u>> \o fs) : u \in UuidPool, fs \in FieldSeqs} \cup {UrnUuid}

(***************************************************************************)
(* Outside collaborators: users, the key registry, content libraries       *)
(***************************************************************************)
\* Outcome of a call that failed: the exception and what it is about.
Fail(e, detail) == [ok |-> FALSE, exc |-> e, detail |-> detail]

\* Users of the tests: username, and whether the user is global staff.
AuthorizedUser == [username |-> "lx-test-user", is_staff |-> FALSE]
StaffUser == [username |-> "lx-staff-user", is_staff |-> TRUE]
OtherUser == [username |-> "other-test-user", is_staff |-> FALSE]
AllUsers == {AuthorizedUser, StaffUser, OtherUser}

\* settings.LX_PATHWAY_PLUGIN_AUTHORIZED_USERNAMES
LX_PATHWAY_PLUGIN_AUTHORIZED_USERNAMES == {"lx-test-user", "lx-staff-user"}

\* UUIDs a pathway can have, and a pathway key string that is no UUID.
U1 == "b0fd731a-5bab-4fe2-8491-405292e5176e"
PathwayUUIDs == {U1}
BadPathwayKeyStr == "lx-pathway:nonsense"

\* Original usage ids: a library block, an item of a pathway, and a string
\* that is no key.
LIB_P1 == "lb:TestOrg:lx-pathway-lib1:problem:p1"
LIB_H2 == "lb:TestOrg:lx-pathway-lib2:html:h2"
LIB_ALPHA == "lb:TestOrg:lx-pathway-lib2:unit:alpha"
LXPB_A == "lx-pb:b0fd731a-5bab-4fe2-8491-405292e5176e:html:a"
GARBAGE == "not a usage key"

\* UsageKey.from_string of the opaque_keys registry.
UsageKeyFromString(s) ==
    CASE s = LIB_P1 -> Ok([kind |-> "lib", lib |-> "lx-pathway-lib1",
                           block_type |-> "problem", usage_id |-> "p1"])
      [] s = LIB_H2 -> Ok([kind |-> "lib", lib |-> "lx-pathway-lib2",
                           block_type |-> "html", usage_id |-> "h2"])
      [] s = LIB_ALPHA -> Ok([kind |-> "lib", lib |-> "lx-pathway-lib2",
                              block_type |-> "unit", usage_id |-> "alpha"])
      [] s = LXPB_A -> Ok([kind |-> "pathway", pathway_uuid |-> U1,
                           block_type |-> "html", usage_id |-> "a",
                           child_usage_id |-> None])
      [] OTHER -> Raise("InvalidKeyError")

\* The bundles of the two libraries.
Bundles == {"lx-pathway-lib1", "lx-pathway-lib2"}

\* The <xblock-include /> elements of the OLX of a library block, as the
\* runtime parses them: unit "alpha" of library 2 includes unit "beta" of
\* library 1 through the bundle link "link1", and "beta" includes html
\* "gamma" of its own bundle.
ParsedIncludes(usage_key) ==
    IF usage_key.lib = "lx-pathway-lib2" /\ usage_key.usage_id = "alpha"
    THEN {[link_id |-> Some("link1"), block_type |-> "unit", definition_id |-> "beta"]}
    ELSE IF usage_key.lib = "lx-pathway-lib1" /\ usage_key.usage_id = "beta"
    THEN {[link_id |-> None, block_type |-> "html", definition_id |-> "gamma"]}
    ELSE {}

\* The bundle that a bundle link of a library's bundle leads to.
BundleLink(bundle_uuid, link_id) ==
    IF bundle_uuid = "lx-pathway-lib2" /\ link_id = "link1" THEN "lx-pathway-lib1"
    ELSE bundle_uuid

\* The highest version that a library's bundle is published at.
MaxBundleVersion == 2

\* definition_for_usage of the content library context: the definition of a
\* library block, at the published version of the library's bundle.
LibraryDefinitionForUsage(usage_key, bundle_versions) ==
    Some([bundle_uuid |-> usage_key.lib,
          block_type |-> usage_key.block_type,
          olx_path |-> <<usage_key.block_type, usage_key.usage_id, "definition.xml">>,
          bundle_version |-> bundle_versions[usage_key.lib]])

(***************************************************************************)
(* pathway_context.py: PathwayContextImpl                                  *)
(***************************************************************************)
\* The same search falling back on the first item of the list.
FirstItemWithIdOrFirst(items, id) ==
    IF \E i \in 1..Len(items) : items[i].id = id
    THEN CHOOSE i \in 1..Len(items) :
            items[i].id = id /\ \A j \in 1..(i - 1) : items[j].id # id
    ELSE IF Len(items) > 0 THEN 1 ELSE 0

\* Index of the first item of the list with the given id, 0 when there is none.
FirstItemWithId(items, id) ==
    IF \E i \in 1..Len(items) : items[i].id = id
    THEN CHOOSE i \in 1..Len(items) :
            items[i].id = id /\ \A j \in 1..(i - 1) : items[j].id # id
    ELSE 0

\* The same locator always at the version of the original's definition.
MakeDefinitionKeyCurrentVersion(usage_key, version, original_def_key) ==
    [bundle_uuid |-> original_def_key.bundle_uuid,
     block_type |-> usage_key.block_type,
     olx_path |-> IF usage_key.child_usage_id # None
                     /\ usage_key.child_usage_id[1] # ""
                  THEN <<usage_key.block_type, usage_key.child_usage_id[1],
                         "definition.xml">>
                  ELSE original_def_key.olx_path,
     bundle_version |-> original_def_key.bundle_version]

\* The same locator always with the path of the original's definition.
MakeDefinitionKeyOriginalPath(usage_key, version, original_def_key) ==
    [bundle_uuid |-> original_def_key.bundle_uuid,
     block_type |-> usage_key.block_type,
     olx_path |-> original_def_key.olx_path,
     bundle_version |-> IF version # None /\ version[1] # 0
                        THEN version[1]
                        ELSE original_def_key.bundle_version]

\* The BundleDefinitionLocator that definition_for_usage returns: the
\* original's, with the block type of the usage key, the path of the
\* descendant when the key names one, and the version of the item when it
\* stores one.
MakeDefinitionKey(usage_key, version, original_def_key) ==
    [bundle_uuid |-> original_def_key.bundle_uuid,
     block_type |-> usage_key.block_type,
     olx_path |-> IF usage_key.child_usage_id # None
                     /\ usage_key.child_usage_id[1] # ""
                  THEN <<usage_key.block_type, usage_key.child_usage_id[1],
                         "definition.xml">>
                  ELSE original_def_key.olx_path,
     bundle_version |-> IF version # None /\ version[1] # 0
                        THEN version[1]
                        ELSE original_def_key.bundle_version]

\* definition_for_usage from "if original_def_key is None" on.
FromOriginalDefKey(usage_key, version, original_def_key) ==
    IF ~original_def_key.ok THEN original_def_key
    ELSE IF original_def_key.val = None THEN Ok(None)
    ELSE Ok(Some(MakeDefinitionKey(usage_key, version, original_def_key.val[1])))

\* The same choice with the use_draft of the context first.
UseDraftOfContextFirst(force_draft, self_use_draft) ==
    IF self_use_draft # None THEN self_use_draft[1]
    ELSE force_draft # None /\ force_draft[1]

\* use_draft of definition_for_usage: force_draft when given, else the
\* use_draft the context was constructed with.
UseDraft(force_draft, self_use_draft) ==
    IF force_draft # None THEN force_draft[1]
    ELSE self_use_draft # None /\ self_use_draft[1]

RECURSIVE DefinitionForUsage(_, _, _, _, _, _)

\* definition_for_usage from the matched item on: the original of the item is
\* resolved by the context of its own key, which for a pathway usage key is
\* definition_for_usage again.
FromItem(usage_key, item, original_usage_id, db, bundle_versions, depth) ==
    IF ~original_usage_id.ok THEN original_usage_id
    ELSE FromOriginalDefKey(usage_key, item.version,
             IF original_usage_id.val.kind = "pathway"
             THEN DefinitionForUsage(original_usage_id.val, None, None,
                                     db, bundle_versions, depth - 1)
             ELSE Ok(LibraryDefinitionForUsage(original_usage_id.val,
                                               bundle_versions)))

\* definition_for_usage, the loop over pathway_data["items"] and what follows.
FromPathwayData(usage_key, items, idx, db, bundle_versions, depth) ==
    IF idx = 0 THEN Ok(None)
    ELSE FromItem(usage_key, items[idx],
                  UsageKeyFromString(items[idx].original_usage_id),
                  db, bundle_versions, depth)

\* PathwayContextImpl.definition_for_usage(usage_key, force_draft=...) of a
\* context constructed with use_draft=self_use_draft; depth counts the calls
\* that the stack still allows.
DefinitionForUsage(usage_key, force_draft, self_use_draft, db, bundle_versions, depth) ==
    IF depth = 0 THEN Raise("RecursionError")
    ELSE IF ~\E row \in db : row.uuid = usage_key.pathway_uuid THEN Ok(None)
    ELSE
      LET pathway == CHOOSE row \in db : row.uuid = usage_key.pathway_uuid
          items == IF UseDraft(force_draft, self_use_draft)
                   THEN pathway.draft_data.items
                   ELSE pathway.published_data.items
      IN  FromPathwayData(usage_key, items,
                          FirstItemWithId(items, usage_key.usage_id),
                          db, bundle_versions, depth)

(***************************************************************************)
(* models.py                                                               *)
(***************************************************************************)
\* The cap on the items of a pathway.  The code's cap is 100 (models.py:81);
\* the model keeps the comparison and scales the number.
MaxItems == 2

\* The ids make_random_id can return: 8 hex digits in the code, here a few
\* ids, among them ids that callers also supply.
ItemIds == {"a", "b", "c"}

\* Python's recursion limit, scaled: one call more than a chain of pathway
\* items without a cycle can need.
RecursionLimit == (MaxItems * Cardinality(PathwayUUIDs)) + 2

\* The same lookup taking the version of a bundle that was never published.
VersionOfDefKeyUnpublished(def_key) ==
    IF ~def_key.ok THEN def_key
    ELSE IF def_key.val = None THEN Fail("XBlockNotFoundError", "no definition")
    ELSE Ok(def_key.val[1].bundle_version)

\* lookup_current_version_for_usage_key from "if not def_key" on.
VersionOfDefKey(def_key) ==
    IF ~def_key.ok THEN def_key
    ELSE IF def_key.val = None THEN Fail("XBlockNotFoundError", "no definition")
    ELSE IF def_key.val[1].bundle_version = 0
         THEN Fail("ValueError", "bundle has not been published")
    ELSE Ok(def_key.val[1].bundle_version)

\* lookup_current_version_for_usage_key
LookupCurrentVersionForUsageKey(usage_key, db, bundle_versions) ==
    VersionOfDefKey(IF usage_key.kind = "pathway"
                    THEN DefinitionForUsage(usage_key, Some(FALSE), None, db,
                                            bundle_versions, RecursionLimit)
                    ELSE Ok(LibraryDefinitionForUsage(usage_key, bundle_versions)))

\* Positions of the items that come without an id.
ItemsWithoutId(items) == {i \in 1..Len(items) : "id" \notin DOMAIN items[i]}

\* The same method taking the id of the original block for the id of the item.
GetUsageIdOfOriginal(pathway, obj) ==
    <<pathway.uuid, UsageKeyFromString(obj.original_usage_id).val.block_type,
      UsageKeyFromString(obj.original_usage_id).val.usage_id>>

\* PathwayItemSerializer.get_usage_id: the usage key of the item in the pathway,
\* str(PathwayUsageLocator(pathway_key, block_type, usage_id)) as its segments.
GetUsageId(pathway, obj) ==
    <<pathway.uuid, UsageKeyFromString(obj.original_usage_id).val.block_type, obj.id>>

\* The same serializer with an id field that always takes its default.
ItemWithDefaultsIgnoresId(item, random_id) ==
    [id |-> random_id,
     original_usage_id |-> item.original_usage_id,
     version |-> IF "version" \in DOMAIN item THEN item.version ELSE Some(0)]

\* PathwayItemSerializer, not partial: the fields of one item with the
\* defaults id=make_random_id() and version=0 filled in.
ItemWithDefaults(item, random_id) ==
    [id |-> IF "id" \in DOMAIN item THEN item.id ELSE random_id,
     original_usage_id |-> item.original_usage_id,
     version |-> IF "version" \in DOMAIN item THEN item.version ELSE Some(0)]

\* PathwayDataSerializer(data=...).is_valid(), not partial; random_ids gives
\* the value make_random_id returns for each item without an id.
PathwayDataSerializer(data, random_ids) ==
    LET items == IF "items" \in DOMAIN data THEN data.items ELSE <<>>
    IN  IF \E i \in 1..Len(items) : "original_usage_id" \notin DOMAIN items[i]
        THEN Fail("ValidationError", "This field is required.")
        ELSE IF \E i \in 1..Len(items) : /\ "version" \in DOMAIN items[i]
                                          /\ items[i].version # None
                                          /\ items[i].version[1] < 0
        THEN Fail("ValidationError", "Ensure this value is greater than or equal to 0.")
        ELSE Ok([title |-> IF "title" \in DOMAIN data THEN data.title ELSE "Pathway",
                 items |-> [i \in 1..Len(items) |->
                              ItemWithDefaults(items[i],
                                  IF i \in DOMAIN random_ids THEN random_ids[i]
                                  ELSE "")]])

\* The same assignment leaving the item to follow the current version.
WithCurrentVersionNotStored(item, version) ==
    IF ~version.ok THEN version
    ELSE Ok([item EXCEPT !.version = None])

\* Pathway.save: item["version"] = lookup_current_version_for_usage_key(...)
WithCurrentVersion(item, version) ==
    IF ~version.ok THEN version
    ELSE Ok([item EXCEPT !.version = Some(version.val)])

\* Pathway.save, the loop over the items from the parsed original usage key on.
SaveParsedItem(item, item_usage_key, db, bundle_versions) ==
    IF ~item_usage_key.ok /\ item_usage_key.exc = "InvalidKeyError"
    THEN Fail("ValidationError", "Invalid item ID")
    ELSE IF ~item_usage_key.ok THEN item_usage_key
    ELSE IF item.version = Some(0)
    THEN WithCurrentVersion(item,
             LookupCurrentVersionForUsageKey(item_usage_key.val, db, bundle_versions))
    ELSE Ok(item)

\* Body of the loop over the items in Pathway.save: the item as it is stored,
\* or the exception the item raises.
SaveItem(item, db, bundle_versions) ==
    SaveParsedItem(item, UsageKeyFromString(item.original_usage_id), db,
                   bundle_versions)

\* The loop over the items stops at the first item that raises; without one
\* the cleaned document replaces the data set.
SaveItems(validated_data, saved) ==
    IF \E i \in 1..Len(saved) : ~saved[i].ok
    THEN saved[CHOOSE i \in 1..Len(saved) :
                  ~saved[i].ok /\ \A j \in 1..(i - 1) : saved[j].ok]
    ELSE Ok([validated_data EXCEPT !.items = [i \in 1..Len(saved) |-> saved[i].val]])

\* The same checks with the cap compared by >= instead of >.
SaveValidatedDataCapOffByOne(validated_data, db, bundle_versions) ==
    LET items == validated_data.items
        num_items == Len(items)
        id_set == {items[i].id : i \in 1..num_items}
    IN  IF num_items >= MaxItems
        THEN Fail("ValidationError", "Too many items in the pathway.")
        ELSE IF Cardinality(id_set) # num_items
        THEN Fail("ValidationError", "Some item IDs are not unique.")
        ELSE SaveItems(validated_data,
                 [i \in 1..num_items |-> SaveItem(items[i], db, bundle_versions)])

\* The same checks without the comparison of the ids.
SaveValidatedDataNoUniqueness(validated_data, db, bundle_versions) ==
    LET items == validated_data.items
        num_items == Len(items)
    IN  IF num_items > MaxItems
        THEN Fail("ValidationError", "Too many items in the pathway.")
        ELSE SaveItems(validated_data,
                 [i \in 1..num_items |-> SaveItem(items[i], db, bundle_versions)])

\* Pathway.save, the body of the loop over the data sets once the serializer
\* has validated the data: the number of items, the ids, the items.
SaveValidatedData(validated_data, db, bundle_versions) ==
    LET items == validated_data.items
        num_items == Len(items)
        id_set == {items[i].id : i \in 1..num_items}
    IN  IF num_items > MaxItems
        THEN Fail("ValidationError", "Too many items in the pathway.")
        ELSE IF Cardinality(id_set) # num_items
        THEN Fail("ValidationError", "Some item IDs are not unique.")
        ELSE SaveItems(validated_data,
                 [i \in 1..num_items |-> SaveItem(items[i], db, bundle_versions)])

\* serializer.is_valid(raise_exception=True), then the checks of save.
SaveSerialized(serializer, db, bundle_versions) ==
    IF ~serializer.ok THEN serializer
    ELSE SaveValidatedData(serializer.val, db, bundle_versions)

\* Pathway.save, the body of the loop over ('draft_data', 'published_data'):
\* the cleaned document, or the exception raised.
SaveDataSet(data, random_ids, db, bundle_versions) ==
    SaveSerialized(PathwayDataSerializer(data, random_ids), db, bundle_versions)

\* The loop over the two data sets: the draft first, then the published one.
SaveDataSets(pathway, draft, published) ==
    IF ~draft.ok THEN draft
    ELSE IF ~published.ok THEN published
    ELSE Ok([pathway EXCEPT !.draft_data = draft.val,
                            !.published_data = published.val])

\* Pathway.save up to the call of the model's save: the record as it will be
\* written, or the exception raised.  The published document always has its
\* ids, so only the draft draws on random_ids.
Save(pathway, random_ids, db, bundle_versions) ==
    IF (pathway.owner_user = None) = (pathway.owner_group = None)
    THEN Fail("ValidationError", "One and only one of 'user' and 'group' must be set.")
    ELSE SaveDataSets(pathway,
             SaveDataSet(pathway.draft_data, random_ids, db, bundle_versions),
             SaveDataSet(pathway.published_data, <<>>, db, bundle_versions))

(***************************************************************************)
(* State                                                                   *)
(***************************************************************************)
VARIABLES
    keyInput,       \* the string handed to a key parser
    keyKind,        \* "none", or which key class was parsed or constructed
    keyResult,      \* None, or the outcome of the parse or construction
    keyString,      \* None, or the serialized form of the key in keyResult
    keyReparsed,    \* None, or the outcome of parsing keyString again
    include,        \* None, or the parsed <xblock-include /> of a child
    db,             \* the rows of the Pathway table
    bundleVersion,  \* published version of each library bundle
    request,        \* None, or the REST request being handled
    response,       \* None, or the response to the request
    writers,        \* per concurrent writer: idle, or the Pathway it has read
    firstResolution \* None, or the first definition_for_usage call and its
                    \* result since the stored data last could change

keyVars == <<keyInput, keyKind, keyResult, keyString, keyReparsed, include>>
restVars == <<db, bundleVersion, request, response>>
vars == <<keyInput, keyKind, keyResult, keyString, keyReparsed, include,
          db, bundleVersion, request, response, writers, firstResolution>>

\* No key is being parsed.
KeysIdle ==
    /\ keyInput = <<>>
    /\ keyKind = "none"
    /\ keyResult = None
    /\ keyString = None
    /\ keyReparsed = None
    /\ include = None

\* The Pathway table is empty, both libraries are published once.
RestIdle ==
    /\ db = {}
    /\ bundleVersion = [b \in Bundles |-> 1]
    /\ request = None
    /\ response = None

\* The requests that are handled at the same time.
Writers == {1, 2}

\* No writer has read a pathway.
WritersIdle == writers = [w \in Writers |-> [pc |-> "idle"]]

\* No usage key has been resolved.
NoResolution == firstResolution = None

\* The <xblock-include /> elements the runtime finds in the OLX of a parent:
\* html "gamma" of the parent's bundle, unit "beta" behind the bundle link
\* "link1", and an include whose block type is no block type.
IncludePool ==
    {[link_id |-> None, block_type |-> <<"h", "t", "m", "l">>,
      definition_id |-> <<"g", "a", "m", "m", "a">>],
     [link_id |-> Some(<<"l", "i", "n", "k", "1">>), block_type |-> <<"u", "n", "i", "t">>,
      definition_id |-> <<"b", "e", "t", "a">>],
     [link_id |-> None, block_type |-> <<"t", "y", " ", "p", "e">>,
      definition_id |-> <<"g", "a", "m", "m", "a">>]}

(***************************************************************************)
(* The key codec applied to a string                                       *)
(***************************************************************************)
InitKeys ==
    /\ keyInput \in KeyInputs
    /\ keyKind = "none"
    /\ keyResult = None
    /\ keyString = None
    /\ keyReparsed = None
    /\ include = None
    /\ RestIdle
    /\ WritersIdle
    /\ NoResolution

\* PathwayLocator._from_string(keyInput)
ParsePathwayKey ==
    /\ keyKind = "none"
    /\ keyKind' = "pathway"
    /\ keyResult' = Some(PathwayLocator_from_string(keyInput))
    /\ UNCHANGED <<keyInput, keyString, keyReparsed, include>>
    /\ UNCHANGED <<restVars, writers, firstResolution>>

\* PathwayLocator(uuid=<UUID object>), as Pathway.key builds it
ConstructPathwayKey ==
    /\ keyKind = "none"
    /\ \E uuid \in UuidValues :
          keyResult' = Some(PathwayLocatorFromUUID(uuid))
    /\ keyKind' = "pathway_from_uuid"
    /\ UNCHANGED <<keyInput, keyString, keyReparsed, include>>
    /\ UNCHANGED <<restVars, writers, firstResolution>>

\* PathwayUsageLocator._from_string(keyInput)
ParseUsageKey ==
    /\ keyKind = "none"
    /\ keyKind' = "usage"
    /\ keyResult' = Some(PathwayUsageLocator_from_string(keyInput))
    /\ UNCHANGED <<keyInput, keyString, keyReparsed, include>>
    /\ UNCHANGED <<restVars, writers, firstResolution>>

\* The runtime loads a child of the block of the parsed usage key:
\* usage_for_child_include(parent_usage, parent_definition, parsed_include)
IncludeChild ==
    /\ keyKind = "usage"
    /\ keyResult # None /\ keyResult[1].ok
    /\ keyString = None
    /\ \E parsed_include \in IncludePool :
          /\ include' = Some(parsed_include)
          /\ keyResult' = Some(UsageForChildInclude(keyResult[1].val, parsed_include))
    /\ keyKind' = "child"
    /\ UNCHANGED <<keyInput, keyString, keyReparsed>>
    /\ UNCHANGED <<restVars, writers, firstResolution>>

IsPathwayKind == keyKind \in {"pathway", "pathway_from_uuid"}

\* key._to_string()
SerializeKey ==
    /\ keyResult # None /\ keyResult[1].ok
    /\ keyString = None
    /\ keyString' = Some(IF IsPathwayKind
                         THEN PathwayLocator_to_string(keyResult[1].val)
                         ELSE PathwayUsageLocator_to_string(keyResult[1].val))
    /\ UNCHANGED <<keyInput, keyKind, keyResult, keyReparsed, include>>
    /\ UNCHANGED <<restVars, writers, firstResolution>>

\* cls._from_string(key._to_string())
ReparseKey ==
    /\ keyString # None
    /\ keyReparsed = None
    /\ keyReparsed' = Some(IF IsPathwayKind
                           THEN PathwayLocator_from_string(keyString[1])
                           ELSE PathwayUsageLocator_from_string(keyString[1]))
    /\ UNCHANGED <<keyInput, keyKind, keyResult, keyString, include>>
    /\ UNCHANGED <<restVars, writers, firstResolution>>

NextKeys ==
    \/ ParsePathwayKey
    \/ ConstructPathwayKey
    \/ ParseUsageKey
    \/ IncludeChild
    \/ SerializeKey
    \/ ReparseKey

SpecKeys == InitKeys /\ [][NextKeys]_vars

(***************************************************************************)
(* views.py: the REST API                                                  *)
(***************************************************************************)
\* A dict without keys, the default of draft_data and published_data.
EmptyDict == <<>>

\* Users that User.objects.get(pk=...) finds, by primary key.
UserIds == {u.username : u \in AllUsers}

\* Groups, and the groups a user is a member of.
Groups == {7}
UserGroups(user) == {}

\* Keys of serializer.validated_data of PathwaySerializer: the value of a
\* field with a dotted source (owner_group_name, source "owner_group.name")
\* is stored under the first part of its source.
ValidatedKeys(data) ==
    (DOMAIN data \ {"owner_group_name"}) \cup
        (IF "owner_group_name" \in DOMAIN data THEN {"owner_group"} ELSE {})

\* HTTP status of the response that an exception turns into.
StatusOf(exc) ==
    CASE exc = "PermissionDenied" -> 403
      [] exc = "Http404" -> 404
      [] exc = "ValidationError" -> 400
      [] OTHER -> 500

ResponseOf(outcome) ==
    IF outcome.ok THEN [status |-> 200, exc |-> "", detail |-> ""]
    ELSE [status |-> StatusOf(outcome.exc), exc |-> outcome.exc,
          detail |-> IF "detail" \in DOMAIN outcome THEN outcome.detail ELSE ""]

\* The request ends with an exception: nothing is written.
Refuse(outcome) ==
    /\ response' = Some(ResponseOf(outcome))
    /\ UNCHANGED <<db, bundleVersion, request>>

\* The same test letting every known user through.
IsAuthorizedAnyUser(user) == user.username \in UserIds

\* authorized_users_only, and the same test in create_pathway
IsAuthorized(user) == user.username \in LX_PATHWAY_PLUGIN_AUTHORIZED_USERNAMES

\* get_pathway_or_404
GetPathwayOr404(pathway_key_str, rows) ==
    IF pathway_key_str \notin PathwayUUIDs THEN Fail("Http404", "InvalidKeyError")
    ELSE IF ~\E row \in rows : row.uuid = pathway_key_str
         THEN Fail("Http404", "Pathway.DoesNotExist")
    ELSE Ok(CHOOSE row \in rows : row.uuid = pathway_key_str)

Handling(op) ==
    /\ request # None
    /\ response = None
    /\ request[1].op = op

\* The UPDATE at the end of Pathway.save, or the exception it raised before.
UpdateRow(old, saved) ==
    IF ~saved.ok THEN Refuse(saved)
    ELSE /\ db' = (db \ {old}) \cup {saved.val}
         /\ response' = Some(ResponseOf(saved))
         /\ UNCHANGED <<bundleVersion, request>>

\* The same save leaving an empty draft behind when the validation fails.
SaveExistingClearsDraft(old, pathway, random_ids) ==
    LET saved == Save(pathway, random_ids, db, bundleVersion)
    IN  IF saved.ok THEN UpdateRow(old, saved)
        ELSE /\ db' = (db \ {old}) \cup
                        {[old EXCEPT !.draft_data = [title |-> "Pathway", items |-> <<>>]]}
             /\ response' = Some(ResponseOf(saved))
             /\ UNCHANGED <<bundleVersion, request>>

\* pathway.save() of a pathway read from the table: validate, then UPDATE.
SaveExisting(old, pathway, random_ids) ==
    UpdateRow(old, Save(pathway, random_ids, db, bundleVersion))

\* The INSERT at the end of Pathway.objects.create, or the exception raised
\* before; IntegrityError becomes a ValidationError.
InsertRow(saved) ==
    IF ~saved.ok THEN Refuse(saved)
    ELSE IF \E row \in db : row.uuid = saved.val.uuid
    THEN Refuse(Fail("ValidationError", "A conflicting pathway already exists."))
    ELSE /\ db' = db \cup {saved.val}
         /\ response' = Some(ResponseOf(saved))
         /\ UNCHANGED <<bundleVersion, request>>

\* The same creation with the draft as the published document too.
CreateValidatedPublished(user, data, serializer, default_uuid) ==
    LET in_group == "owner_group_name" \in ValidatedKeys(data)
        groups == IF user.is_staff THEN Groups ELSE UserGroups(user)
    IN  IF ~serializer.ok THEN Refuse(serializer)
        ELSE IF in_group /\ data.owner_group_name \notin groups
        THEN Refuse(Fail("ValidationError", "Invalid group name."))
        ELSE InsertRow(Save(
                 [uuid |-> IF "uuid" \in ValidatedKeys(data)
                           THEN data.uuid ELSE default_uuid,
                  owner_user |-> IF in_group THEN None ELSE Some(user.username),
                  owner_group |-> IF in_group THEN Some(data.owner_group_name)
                                  ELSE None,
                  draft_data |-> serializer.val,
                  published_data |-> serializer.val],
                 <<>>, db, bundleVersion))

\* create_pathway from the validated draft_data on.
CreateValidated(user, data, serializer, default_uuid) ==
    LET in_group == "owner_group_name" \in ValidatedKeys(data)
        groups == IF user.is_staff THEN Groups ELSE UserGroups(user)
    IN  IF ~serializer.ok THEN Refuse(serializer)
        ELSE IF in_group /\ data.owner_group_name \notin groups
        THEN Refuse(Fail("ValidationError", "Invalid group name."))
        ELSE InsertRow(Save(
                 [uuid |-> IF "uuid" \in ValidatedKeys(data)
                           THEN data.uuid ELSE default_uuid,
                  owner_user |-> IF in_group THEN None ELSE Some(user.username),
                  owner_group |-> IF in_group THEN Some(data.owner_group_name)
                                  ELSE None,
                  draft_data |-> serializer.val,
                  published_data |-> EmptyDict],
                 <<>>, db, bundleVersion))

\* create_pathway
CreatePathway ==
    /\ Handling("create")
    /\ UNCHANGED <<keyVars, writers, firstResolution>>
    /\ LET user == request[1].user
           data == request[1].data
       IN  IF ~IsAuthorized(user) THEN Refuse(Fail("PermissionDenied", ""))
           ELSE IF "draft_data" \notin DOMAIN data
           THEN Refuse(Fail("ValidationError", "This field is required."))
           ELSE
             \E random_ids \in [ItemsWithoutId(IF "items" \in DOMAIN data.draft_data
                                              THEN data.draft_data.items
                                              ELSE <<>>) -> ItemIds] :
             \E default_uuid \in PathwayUUIDs :
                CreateValidated(user, data,
                    PathwayDataSerializer(data.draft_data, random_ids), default_uuid)

\* PathwayView.get
GetPathway ==
    /\ Handling("get")
    /\ UNCHANGED <<keyVars, writers, firstResolution>>
    /\ IF ~IsAuthorized(request[1].user) THEN Refuse(Fail("PermissionDenied", ""))
       ELSE LET pathway == GetPathwayOr404(request[1].pathway_key_str, db)
            IN  IF ~pathway.ok THEN Refuse(pathway)
                ELSE /\ response' = Some(ResponseOf(pathway))
                     /\ UNCHANGED <<db, bundleVersion, request>>

\* PathwayView.patch
PatchPathway ==
    /\ Handling("patch")
    /\ UNCHANGED <<keyVars, writers, firstResolution>>
    /\ LET user == request[1].user
           data == request[1].data
           found == GetPathwayOr404(request[1].pathway_key_str, db)
       IN  IF ~IsAuthorized(user) THEN Refuse(Fail("PermissionDenied", ""))
           ELSE IF ~found.ok THEN Refuse(found)
           ELSE
             LET pathway == found.val
                 with_draft == IF "draft_data" \in ValidatedKeys(data)
                               THEN [pathway EXCEPT !.draft_data = data.draft_data]
                               ELSE pathway
                 owner_given == \/ "owner_user_id" \in ValidatedKeys(data)
                                \/ "owner_group_name" \in ValidatedKeys(data)
                 new_user == "owner_user_id" \in ValidatedKeys(data)
                                /\ data.owner_user_id # None
                 new_group == "owner_group_name" \in ValidatedKeys(data)
             IN  IF owner_given /\ ~user.is_staff
                 THEN Refuse(Fail("PermissionDenied",
                                  "Only global staff can change a pathway owner."))
                 ELSE IF owner_given /\ new_user /\ data.owner_user_id[1] \notin UserIds
                 THEN Refuse(Fail("User.DoesNotExist", ""))
                 ELSE IF owner_given /\ ~new_user /\ new_group
                         /\ data.owner_group_name \notin Groups
                 THEN Refuse(Fail("Group.DoesNotExist", ""))
                 ELSE
                   LET with_owner ==
                           IF owner_given /\ new_user
                           THEN [with_draft EXCEPT !.owner_user = data.owner_user_id,
                                                   !.owner_group = None]
                           ELSE IF owner_given /\ new_group
                           THEN [with_draft EXCEPT !.owner_user = None,
                                                   !.owner_group =
                                                       Some(data.owner_group_name)]
                           ELSE with_draft
                       items == IF "items" \in DOMAIN with_owner.draft_data
                                THEN with_owner.draft_data.items ELSE <<>>
                   IN  \E random_ids \in [ItemsWithoutId(items) -> ItemIds] :
                          SaveExisting(pathway, with_owner, random_ids)

\* PathwayView.delete
DeletePathway ==
    /\ Handling("delete")
    /\ UNCHANGED <<keyVars, writers, firstResolution>>
    /\ IF ~IsAuthorized(request[1].user) THEN Refuse(Fail("PermissionDenied", ""))
       ELSE LET pathway == GetPathwayOr404(request[1].pathway_key_str, db)
            IN  IF ~pathway.ok THEN Refuse(pathway)
                ELSE /\ db' = db \ {pathway.val}
                     /\ response' = Some(ResponseOf(pathway))
                     /\ UNCHANGED <<bundleVersion, request>>

\* The same handler with the assignment the other way round.
PublishPathwayAssignsDraft ==
    /\ Handling("publish")
    /\ UNCHANGED <<keyVars, writers, firstResolution>>
    /\ IF ~IsAuthorized(request[1].user) THEN Refuse(Fail("PermissionDenied", ""))
       ELSE LET pathway == GetPathwayOr404(request[1].pathway_key_str, db)
            IN  IF ~pathway.ok THEN Refuse(pathway)
                ELSE SaveExisting(pathway.val,
                         [pathway.val EXCEPT !.draft_data = pathway.val.published_data],
                         <<>>)

\* PathwayPublishView.post: publish changes
PublishPathway ==
    /\ Handling("publish")
    /\ UNCHANGED <<keyVars, writers, firstResolution>>
    /\ IF ~IsAuthorized(request[1].user) THEN Refuse(Fail("PermissionDenied", ""))
       ELSE LET pathway == GetPathwayOr404(request[1].pathway_key_str, db)
            IN  IF ~pathway.ok THEN Refuse(pathway)
                ELSE SaveExisting(pathway.val,
                         [pathway.val EXCEPT !.published_data = pathway.val.draft_data],
                         <<>>)

\* The same handler with the assignment the other way round.
RevertPathwayAssignsPublished ==
    /\ Handling("revert")
    /\ UNCHANGED <<keyVars, writers, firstResolution>>
    /\ IF ~IsAuthorized(request[1].user) THEN Refuse(Fail("PermissionDenied", ""))
       ELSE LET pathway == GetPathwayOr404(request[1].pathway_key_str, db)
            IN  IF ~pathway.ok THEN Refuse(pathway)
                ELSE SaveExisting(pathway.val,
                         [pathway.val EXCEPT !.published_data = pathway.val.draft_data],
                         <<>>)

\* PathwayPublishView.delete: revert to the last published version
RevertPathway ==
    /\ Handling("revert")
    /\ UNCHANGED <<keyVars, writers, firstResolution>>
    /\ IF ~IsAuthorized(request[1].user) THEN Refuse(Fail("PermissionDenied", ""))
       ELSE LET pathway == GetPathwayOr404(request[1].pathway_key_str, db)
            IN  IF ~pathway.ok THEN Refuse(pathway)
                ELSE SaveExisting(pathway.val,
                         [pathway.val EXCEPT !.draft_data = pathway.val.published_data],
                         <<>>)

\* library_api.publish_changes: the bundle of a library gets its next version.
PublishLibraryChanges ==
    /\ request = None
    /\ \E b \in Bundles :
          /\ bundleVersion[b] < MaxBundleVersion
          /\ bundleVersion' = [bundleVersion EXCEPT ![b] = @ + 1]
    /\ firstResolution' = None
    /\ UNCHANGED <<db, request, response>>
    /\ UNCHANGED <<keyVars, writers>>

\* The call without what it is answered with.
CallOf(call) ==
    [usage_key |-> call.usage_key, use_draft |-> call.use_draft,
     force_draft |-> call.force_draft]

\* The call returns or raises.  The first call since the stored data last
\* could change is kept with its result, and with whether another call has
\* followed it (between) and whether it was then made again (repeated).
Resolves(call, result) ==
    /\ response' = Some([result |-> result])
    /\ firstResolution' =
           IF firstResolution = None
           THEN Some([call |-> CallOf(call), result |-> result,
                      between |-> FALSE, repeated |-> FALSE])
           ELSE IF firstResolution[1].call = CallOf(call)
           THEN Some([firstResolution[1] EXCEPT !.repeated = @ \/ firstResolution[1].between])
           ELSE Some([firstResolution[1] EXCEPT !.between = TRUE])

\* The same call through a context that keeps the use_draft of the call
\* before it.
CallDefinitionForUsageKeepsUseDraft ==
    /\ Handling("definition_for_usage")
    /\ Resolves(request[1],
                DefinitionForUsage(request[1].usage_key, request[1].force_draft,
                                   IF firstResolution = None THEN request[1].use_draft
                                   ELSE Some(firstResolution[1].between),
                                   db, bundleVersion, RecursionLimit))
    /\ UNCHANGED <<db, bundleVersion, request>>
    /\ UNCHANGED <<keyVars, writers>>

\* The XBlock runtime asks a PathwayContextImpl(use_draft=...) for the
\* definition of a usage key: definition_for_usage(usage_key), or
\* definition_for_usage(usage_key, force_draft=...).
CallDefinitionForUsage ==
    /\ Handling("definition_for_usage")
    /\ Resolves(request[1],
                DefinitionForUsage(request[1].usage_key, request[1].force_draft,
                                   request[1].use_draft, db, bundleVersion,
                                   RecursionLimit))
    /\ UNCHANGED <<db, bundleVersion, request>>
    /\ UNCHANGED <<keyVars, writers>>

(***************************************************************************)
(* Requests of the clients                                                 *)
(***************************************************************************)
\* Items a client sends in lists of every length up to one over the cap: a
\* library block without and with an id (version left to the default), an
\* item of a pathway with version null, and a string that is no key.
ItemPool ==
    {[original_usage_id |-> LIB_P1],
     [id |-> "a", original_usage_id |-> LIB_P1],
     [id |-> "a", original_usage_id |-> LXPB_A, version |-> None],
     [original_usage_id |-> GARBAGE, version |-> None]}

ItemSeqs == UNION {[1..n -> ItemPool] : n \in 0..(MaxItems + 1)}

\* Documents a client sends: the lists above, the item of
\* test_pathway_invalid_original_key (a pathway item, version left to the
\* default), a document with a title, and an empty document.
DocPool ==
    {[items |-> items] : items \in ItemSeqs} \cup
    {[items |-> <<[original_usage_id |-> LXPB_A]>>],
     [title |-> "A Test Pathway",
      items |-> <<[id |-> "a", original_usage_id |-> LIB_P1]>>],
     EmptyDict}

CreateRequests ==
    {[op |-> "create", user |-> AuthorizedUser, data |-> [draft_data |-> doc]] :
        doc \in DocPool} \cup
    {[op |-> "create", user |-> user,
      data |-> [uuid |-> U1, draft_data |-> [items |-> <<[original_usage_id |-> LIB_P1]>>]]] :
        user \in {AuthorizedUser, OtherUser}} \cup
    {[op |-> "create", user |-> AuthorizedUser,
      data |-> [owner_group_name |-> 7, draft_data |-> EmptyDict]],
     [op |-> "create", user |-> AuthorizedUser, data |-> EmptyDict]}

PatchRequests ==
    {[op |-> "patch", user |-> AuthorizedUser, pathway_key_str |-> U1,
      data |-> [draft_data |-> doc]] : doc \in DocPool} \cup
    {[op |-> "patch", user |-> user, pathway_key_str |-> key, data |-> EmptyDict] :
        user \in {AuthorizedUser, OtherUser}, key \in {U1, BadPathwayKeyStr}} \cup
    {[op |-> "patch", user |-> user, pathway_key_str |-> U1,
      data |-> [owner_user_id |-> owner]] :
        user \in {AuthorizedUser, StaffUser},
        owner \in {None, Some("lx-test-user"), Some("nobody")}} \cup
    {[op |-> "patch", user |-> StaffUser, pathway_key_str |-> U1,
      data |-> [owner_group_name |-> 7]]}

OtherRequests ==
    {[op |-> op, user |-> user, pathway_key_str |-> key] :
        op \in {"get", "delete", "publish", "revert"},
        user \in {AuthorizedUser, OtherUser},
        key \in {U1, BadPathwayKeyStr}}

\* Usage keys the runtime resolves: items "a", "b" and "c" by the block type
\* of a problem, an html block and a unit, the item itself and descendants of
\* it, among them the key with the empty child_usage_id that the parser lets
\* through.
RuntimeUsageKeys ==
    {[kind |-> "pathway", pathway_uuid |-> U1, block_type |-> k[1],
      usage_id |-> k[2], child_usage_id |-> k[3]] :
        k \in {<<"problem", "a", None>>, <<"html", "a", None>>,
               <<"problem", "a", Some("child1")>>, <<"problem", "a", Some("")>>,
               <<"problem", "c", None>>, <<"html", "c", Some("child1")>>,
               <<"unit", "b", None>>, <<"unit", "b", Some("beta")>>}}

\* The runtime's calls: every key through a context of published content and
\* through a context of drafts, and one key with force_draft given, through
\* contexts made with use_draft left out, True and False.
RuntimeRequests ==
    {[op |-> "definition_for_usage", usage_key |-> key, use_draft |-> use_draft,
      force_draft |-> None] :
        key \in RuntimeUsageKeys, use_draft \in {None, Some(TRUE)}} \cup
    {[op |-> "definition_for_usage",
      usage_key |-> [kind |-> "pathway", pathway_uuid |-> U1, block_type |-> "problem",
                     usage_id |-> "a", child_usage_id |-> None],
      use_draft |-> use_draft, force_draft |-> Some(force_draft)] :
        use_draft \in {None, Some(TRUE), Some(FALSE)}, force_draft \in BOOLEAN}

Requests == CreateRequests \cup PatchRequests \cup OtherRequests

\* A client sends a request.
SendRequest ==
    /\ request = None
    /\ \E req \in Requests : request' = Some(req)
    /\ UNCHANGED <<db, bundleVersion, response>>
    /\ UNCHANGED <<keyVars, writers, firstResolution>>

\* The client receives the response.
ReceiveResponse ==
    /\ request # None
    /\ response # None
    /\ request' = None
    /\ response' = None
    /\ UNCHANGED <<db, bundleVersion>>
    /\ UNCHANGED <<keyVars, writers, firstResolution>>

Init == KeysIdle /\ RestIdle /\ WritersIdle /\ NoResolution

Next ==
    \/ SendRequest
    \/ CreatePathway
    \/ GetPathway
    \/ PatchPathway
    \/ DeletePathway
    \/ PublishPathway
    \/ RevertPathway
    \/ ReceiveResponse

Spec == Init /\ [][Next]_vars

(***************************************************************************)
(* The runtime resolving usage keys of pathways that clients edit while    *)
(* the libraries are published again                                       *)
(***************************************************************************)
\* The documents of the pathways that get resolved: a problem at the version
\* current when it is saved, the problem at the newest version, an item of
\* the pathway itself, the unit "alpha", two items, the problem as a GET
\* shows it (with its usage_id) sent back, and the problem at version -1.
ResolveDocs ==
    {[items |-> <<[id |-> "a", original_usage_id |-> LIB_P1]>>],
     [items |-> <<[usage_id |-> <<U1, "problem", "a">>, id |-> "a",
                   original_usage_id |-> LIB_P1, version |-> Some(1)]>>],
     [items |-> <<[id |-> "a", original_usage_id |-> LIB_P1, version |-> Some(0 - 1)]>>],
     [items |-> <<[id |-> "a", original_usage_id |-> LIB_P1, version |-> None]>>],
     [items |-> <<[id |-> "a", original_usage_id |-> LXPB_A, version |-> None]>>],
     [items |-> <<[id |-> "b", original_usage_id |-> LIB_ALPHA]>>],
     [items |-> <<[id |-> "a", original_usage_id |-> LIB_P1],
                  [id |-> "c", original_usage_id |-> LIB_P1, version |-> None]>>]}

ResolveRequests ==
    {[op |-> "create", user |-> AuthorizedUser, data |-> [draft_data |-> doc]] :
        doc \in ResolveDocs} \cup
    {[op |-> "patch", user |-> AuthorizedUser, pathway_key_str |-> U1,
      data |-> [draft_data |-> doc]] : doc \in ResolveDocs} \cup
    {[op |-> op, user |-> AuthorizedUser, pathway_key_str |-> U1] :
        op \in {"publish", "revert"}} \cup
    RuntimeRequests

\* A client sends a request, or the runtime calls the learning context.
\* A request that can write ends the time over which resolutions see the same
\* stored data.
SendResolveRequest ==
    /\ request = None
    /\ \E req \in ResolveRequests :
          /\ request' = Some(req)
          /\ firstResolution' = IF req.op = "definition_for_usage"
                                THEN firstResolution ELSE None
    /\ UNCHANGED <<db, bundleVersion, response>>
    /\ UNCHANGED <<keyVars, writers>>

NextResolve ==
    \/ SendResolveRequest
    \/ CreatePathway
    \/ PatchPathway
    \/ PublishPathway
    \/ RevertPathway
    \/ PublishLibraryChanges
    \/ CallDefinitionForUsage
    \/ ReceiveResponse

\* The Pathway table is empty; the library of the problem is published, the
\* library of the unit "alpha" has been created and not published yet.
InitResolve ==
    /\ KeysIdle
    /\ db = {}
    /\ bundleVersion = [b \in Bundles |-> IF b = "lx-pathway-lib2" THEN 0 ELSE 1]
    /\ request = None
    /\ response = None
    /\ WritersIdle
    /\ NoResolution

SpecResolve == InitResolve /\ [][NextResolve]_vars

(***************************************************************************)
(* Two requests for one pathway handled at the same time                   *)
(***************************************************************************)
\* The pathway that create_pathway stores for an empty draft_data.
CreatedPathway ==
    [uuid |-> U1,
     owner_user |-> Some(AuthorizedUser.username),
     owner_group |-> None,
     draft_data |-> [title |-> "Pathway", items |-> <<>>],
     published_data |-> [title |-> "Pathway", items |-> <<>>]]

\* The draft_data of the PATCH requests: one item, another item, both, two
\* items with one id, and one item more than the cap allows.
ConcurrentItem(id) == [id |-> id, original_usage_id |-> LIB_P1, version |-> None]
ConcurrentDocs ==
    {[items |-> <<ConcurrentItem("a")>>],
     [items |-> <<ConcurrentItem("b")>>],
     [items |-> <<ConcurrentItem("a"), ConcurrentItem("b")>>],
     [items |-> <<ConcurrentItem("a"), ConcurrentItem("a")>>],
     [items |-> [i \in 1..(MaxItems + 1) |->
                   ConcurrentItem(IF i = 1 THEN "a" ELSE IF i = 2 THEN "b" ELSE "c")]]}

\* The pathway is stored, no request is being handled.
InitConcurrent ==
    /\ KeysIdle
    /\ db = {CreatedPathway}
    /\ bundleVersion = [b \in Bundles |-> 1]
    /\ request = None
    /\ response = None
    /\ WritersIdle
    /\ NoResolution

\* The handler has read the row and changed its own Pathway object; it has
\* not called save() yet.
HasRead(w, op, row, pathway) ==
    /\ writers[w].pc = "idle"
    /\ writers' = [writers EXCEPT ![w] =
            [pc |-> "read", op |-> op, row |-> row, pathway |-> pathway]]
    /\ UNCHANGED <<db, bundleVersion, request, response>>
    /\ UNCHANGED <<keyVars, firstResolution>>

\* PathwayView.patch up to pathway.save()
WriterPatch(w) ==
    \E doc \in ConcurrentDocs :
        LET found == GetPathwayOr404(U1, db)
        IN  /\ found.ok
            /\ HasRead(w, "patch", found.val, [found.val EXCEPT !.draft_data = doc])

\* PathwayPublishView.post up to pathway.save()
WriterPublish(w) ==
    LET found == GetPathwayOr404(U1, db)
    IN  /\ found.ok
        /\ HasRead(w, "publish", found.val,
                   [found.val EXCEPT !.published_data = found.val.draft_data])

\* PathwayPublishView.delete up to pathway.save()
WriterRevert(w) ==
    LET found == GetPathwayOr404(U1, db)
    IN  /\ found.ok
        /\ HasRead(w, "revert", found.val,
                   [found.val EXCEPT !.draft_data = found.val.published_data])

\* The same step writing the Pathway object without validating it.
WriterSaveUnvalidated(w) ==
    /\ writers[w].pc = "read"
    /\ db' = {row \in db : row.uuid # writers[w].pathway.uuid} \cup {writers[w].pathway}
    /\ writers' = [writers EXCEPT ![w] =
            [pc |-> "idle", op |-> writers[w].op, saved |-> writers[w].pathway,
             overwrote |-> \E row \in db : /\ row.uuid = writers[w].pathway.uuid
                                           /\ row # writers[w].row]]
    /\ UNCHANGED <<bundleVersion, request, response>>
    /\ UNCHANGED <<keyVars, firstResolution>>

\* pathway.save() of the handler: the Pathway object is validated and, when it
\* is valid, all its fields are written to the row of its primary key,
\* whatever the row holds by then.  The writer keeps what it has done: the
\* operation, the row it saved, and overwrote, which tells whether the row had
\* changed since the handler read it.
WriterSave(w) ==
    /\ writers[w].pc = "read"
    /\ LET saved == Save(writers[w].pathway, <<>>, db, bundleVersion)
       IN  IF ~saved.ok
           THEN /\ db' = db
                /\ writers' = [writers EXCEPT ![w] = [pc |-> "idle"]]
           ELSE /\ db' = {row \in db : row.uuid # saved.val.uuid} \cup {saved.val}
                /\ writers' = [writers EXCEPT ![w] =
                        [pc |-> "idle", op |-> writers[w].op, saved |-> saved.val,
                         overwrote |-> \E row \in db : /\ row.uuid = saved.val.uuid
                                                       /\ row # writers[w].row]]
    /\ UNCHANGED <<bundleVersion, request, response>>
    /\ UNCHANGED <<keyVars, firstResolution>>

NextConcurrent ==
    \E w \in Writers :
        \/ WriterPatch(w)
        \/ WriterPublish(w)
        \/ WriterRevert(w)
        \/ WriterSave(w)

SpecConcurrent == InitConcurrent /\ [][NextConcurrent]_vars

(***************************************************************************)
(* Properties of the key codec, checked under SpecKeys                     *)
(***************************************************************************)
ParsedUsage == keyKind = "usage" /\ keyResult # None
ParsedPathway == keyKind = "pathway" /\ keyResult # None

\* Number of ':'-separated segments of a string, counted from its colons.
NumSegments(s) == Cardinality({i \in 1..Len(s) : s[i] = ":"}) + 1

\* Non-empty and made of word characters, hyphens and dots only.
InRestrictedCharset(s) ==
    Len(s) > 0 /\ \A i \in 1..Len(s) : s[i] \in USAGE_ID_REGEXP

\* The hyphenated lowercase form of a UUID: 8-4-4-4-12 hex digits.
IsCanonicalForm(s) ==
    /\ Len(s) = 36
    /\ \A i \in 1..Len(s) :
          IF i \in {9, 14, 19, 24} THEN s[i] = "-"
          ELSE s[i] \in Digits \cup LowerHexLetters

\* C1: every string the PathwayUsageLocator parser accepts is given back
\* unchanged by serializing the parsed key.
C1_UsageKeyRoundTrip ==
    (keyKind = "usage" /\ keyString # None) => keyString[1] = keyInput

\* C2: PathwayLocator parsing succeeds exactly for the canonical form of a
\* UUID and fails with InvalidKeyError otherwise; serializing a parsed key
\* gives back the input, and parsing a serialized key gives back the key.
C2_PathwayKeyCodec ==
    /\ ParsedPathway =>
          /\ keyResult[1].ok <=> IsCanonicalForm(keyInput)
          /\ ~keyResult[1].ok => keyResult[1] = Raise("InvalidKeyError")
    /\ (keyKind = "pathway" /\ keyString # None) => keyString[1] = keyInput
    /\ (IsPathwayKind /\ keyReparsed # None) => keyReparsed[1] = keyResult[1]

\* A parsed pathway key has been serialized and parsed again.
C2_Witness ==
    /\ keyKind = "pathway"
    /\ keyReparsed # None
    /\ keyReparsed[1].ok

\* C3: every constructed PathwayUsageLocator has block_type, usage_id and,
\* when present, child_usage_id in the restricted charset.
C3_UsageKeyFieldsInCharset ==
    (ParsedUsage /\ keyResult[1].ok) =>
        LET key == keyResult[1].val
        IN  /\ InRestrictedCharset(key.block_type)
            /\ InRestrictedCharset(key.usage_id)
            /\ key.child_usage_id # None => InRestrictedCharset(key.child_usage_id[1])

\* C4: PathwayUsageLocator parsing raises InvalidKeyError for every string
\* that has not exactly 3 or 4 segments, and yields a key only for a string
\* of 3 or 4 segments.
C4_UsageKeySegmentCount ==
    ParsedUsage =>
        /\ NumSegments(keyInput) \notin {3, 4} => keyResult[1] = Raise("InvalidKeyError")
        /\ keyResult[1].ok => NumSegments(keyInput) \in {3, 4}

\* A string of five segments with a canonical UUID and valid fields was refused.
C4_Witness ==
    /\ ParsedUsage
    /\ NumSegments(keyInput) = 5
    /\ ~keyResult[1].ok
    /\ LET parts == Split(keyInput)
       IN  /\ IsCanonicalForm(parts[1])
           /\ \A i \in 2..5 : InRestrictedCharset(parts[i])

\* C5: every failure of PathwayUsageLocator parsing is an InvalidKeyError.
C5_UsageKeyFailureIsInvalidKeyError ==
    (ParsedUsage /\ ~keyResult[1].ok) => keyResult[1].exc = "InvalidKeyError"

(***************************************************************************)
(* Properties of the REST API, checked under Spec                          *)
(***************************************************************************)
\* The two documents of a row.
Documents(row) == {row.draft_data, row.published_data}

\* The request has been handled and answered.
Handled(ops) ==
    /\ request # None
    /\ response # None
    /\ request[1].op \in ops

\* The items of the draft_data a create or PATCH request carries.
RequestHasItems ==
    /\ "data" \in DOMAIN request[1]
    /\ "draft_data" \in DOMAIN request[1].data
    /\ "items" \in DOMAIN request[1].data.draft_data
RequestItems == request[1].data.draft_data.items

\* The write reaches Pathway.save: the user is authorized and, for a PATCH,
\* the pathway exists.
ReachesSave ==
    /\ IsAuthorized(request[1].user)
    /\ request[1].op = "patch" => \E row \in db : row.uuid = request[1].pathway_key_str

IsPathwayItemKeyString(s) ==
    UsageKeyFromString(s).ok /\ UsageKeyFromString(s).val.kind = "pathway"

\* C6: a create or PATCH with an item whose original usage id is a pathway
\* item key, or is no key at all, is answered with a validation error, and no
\* stored document has an item whose original usage id is a pathway item key.
C6_NoPathwayItemAsOriginal ==
    /\ \A row \in db : \A doc \in Documents(row) : \A i \in 1..Len(doc.items) :
          ~IsPathwayItemKeyString(doc.items[i].original_usage_id)
    /\ (Handled({"create", "patch"}) /\ RequestHasItems /\ ReachesSave
          /\ \E i \in 1..Len(RequestItems) :
                \/ IsPathwayItemKeyString(RequestItems[i].original_usage_id)
                \/ ~UsageKeyFromString(RequestItems[i].original_usage_id).ok)
       => response[1].status = 400

\* C7: the draft and the published document of every pathway hold at most
\* MaxItems items; a write with more items is refused, for the number of its
\* items whenever it reaches save, and a write with exactly MaxItems items is
\* not refused for the number of its items.
C7_AtMostMaxItems ==
    /\ \A row \in db : \A doc \in Documents(row) : Len(doc.items) <= MaxItems
    /\ (Handled({"create", "patch"}) /\ RequestHasItems) =>
          /\ Len(RequestItems) > MaxItems =>
                /\ response[1].status \in {400, 403, 404}
                /\ ReachesSave =>
                      /\ response[1].status = 400
                      /\ response[1].detail = "Too many items in the pathway."
          /\ Len(RequestItems) <= MaxItems =>
                response[1].detail # "Too many items in the pathway."

\* A write with exactly MaxItems items was accepted and is stored as the draft.
C7_Witness ==
    /\ Handled({"create", "patch"}) /\ RequestHasItems
    /\ Len(RequestItems) = MaxItems
    /\ response[1].status = 200
    /\ \E row \in db : Len(row.draft_data.items) = MaxItems

\* The ids the caller supplied are pairwise distinct.
SuppliedIdsDistinct(items) ==
    \A i, j \in 1..Len(items) :
        ("id" \in DOMAIN items[i] /\ "id" \in DOMAIN items[j] /\ i # j)
            => items[i].id # items[j].id

IdsDistinct(items) ==
    \A i, j \in 1..Len(items) : i # j => items[i].id # items[j].id

\* C8: the item ids of every stored document are pairwise distinct; a write
\* whose supplied ids collide is refused as not unique, and an accepted write
\* stores every supplied id as supplied, so that an id drawn for an item
\* without one that collides is refused in the same way.
C8_ItemIdsUnique ==
    /\ \A row \in db : \A doc \in Documents(row) : IdsDistinct(doc.items)
    /\ (Handled({"create", "patch"}) /\ RequestHasItems /\ ReachesSave
          /\ Len(RequestItems) <= MaxItems /\ ~SuppliedIdsDistinct(RequestItems))
       => /\ response[1].status = 400
          /\ response[1].detail = "Some item IDs are not unique."
    /\ (Handled({"create", "patch"}) /\ RequestHasItems /\ response[1].status = 200)
       => \E row \in db :
             /\ Len(row.draft_data.items) = Len(RequestItems)
             /\ \A i \in 1..Len(RequestItems) :
                   "id" \in DOMAIN RequestItems[i]
                       => row.draft_data.items[i].id = RequestItems[i].id

\* A write whose supplied ids are distinct was refused as not unique: an id
\* drawn by make_random_id collided.
C8_Witness ==
    /\ Handled({"create", "patch"}) /\ RequestHasItems
    /\ SuppliedIdsDistinct(RequestItems)
    /\ \E i \in 1..Len(RequestItems) : "id" \notin DOMAIN RequestItems[i]
    /\ response[1].status = 400
    /\ response[1].detail = "Some item IDs are not unique."

\* The row of the pathway that the request names, before and after a step.
RowBefore == CHOOSE row \in db : row.uuid = request[1].pathway_key_str
RowAfter == CHOOSE row \in db' : row.uuid = request[1].pathway_key_str

\* The step answers a request for op with 200.
Succeeds(op) ==
    /\ Handling(op)
    /\ response' # None
    /\ response'[1].status = 200

\* C9: a successful publish leaves the published document equal to the draft
\* document as it was before, and the draft document unchanged.
C9_PublishCopiesDraft ==
    [][Succeeds("publish") =>
          /\ RowAfter.published_data = RowBefore.draft_data
          /\ RowAfter.draft_data = RowBefore.draft_data]_vars

\* A publish of a draft with items has succeeded.
C9_Witness ==
    /\ Handled({"publish"})
    /\ response[1].status = 200
    /\ \E row \in db : /\ row.uuid = request[1].pathway_key_str
                       /\ row.published_data.items # <<>>
                       /\ row.published_data = row.draft_data

\* C10: a successful revert leaves the draft document equal to the published
\* document as it was before and the published document unchanged; the row
\* keeps nothing but its key, its owner and these two documents.
C10_RevertRestoresPublished ==
    [][Succeeds("revert") =>
          /\ RowAfter.draft_data = RowBefore.published_data
          /\ RowAfter.published_data = RowBefore.published_data
          /\ RowAfter = [RowBefore EXCEPT !.draft_data = RowBefore.published_data]
          /\ db' = (db \ {RowBefore}) \cup {RowAfter}]_vars

\* A revert to a published document with items has succeeded.
C10_Witness ==
    /\ Handled({"revert"})
    /\ response[1].status = 200
    /\ \E row \in db : /\ row.uuid = request[1].pathway_key_str
                       /\ row.draft_data.items # <<>>
                       /\ row.draft_data = row.published_data

\* The PATCH resubmits the items of the stored draft, each with its id and its
\* original usage id, in their order, possibly followed by further items.
ResubmitsExistingItems ==
    /\ RequestHasItems
    /\ \E row \in db : row.uuid = request[1].pathway_key_str
    /\ Len(RequestItems) >= Len(RowBefore.draft_data.items)
    /\ \A i \in 1..Len(RowBefore.draft_data.items) :
          /\ "id" \in DOMAIN RequestItems[i]
          /\ RequestItems[i].id = RowBefore.draft_data.items[i].id
          /\ RequestItems[i].original_usage_id =
                 RowBefore.draft_data.items[i].original_usage_id

\* C11: after a successful PATCH that resubmits the existing items with their
\* ids and appends new items, every item that was there keeps its id and its
\* derived usage_id, and every appended item that came without an id has an
\* id that no item that was there has.
C11_ItemIdentityStable ==
    [][(Succeeds("patch") /\ ResubmitsExistingItems) =>
          LET before == RowBefore.draft_data.items
              after == RowAfter.draft_data.items
          IN  /\ Len(after) = Len(RequestItems)
              /\ \A i \in 1..Len(before) :
                    /\ after[i].id = before[i].id
                    /\ GetUsageId(RowAfter, after[i]) = GetUsageId(RowBefore, before[i])
              /\ \A j \in (Len(before) + 1)..Len(after) :
                    "id" \notin DOMAIN RequestItems[j]
                        => after[j].id \notin {before[i].id : i \in 1..Len(before)}]_vars

\* A PATCH that resubmits item "a", which the pathway has published before,
\* and appends an item without an id has succeeded.
C11_Witness ==
    /\ Handled({"patch"}) /\ RequestHasItems
    /\ response[1].status = 200
    /\ Len(RequestItems) = 2
    /\ "id" \in DOMAIN RequestItems[1]
    /\ "id" \notin DOMAIN RequestItems[2]
    /\ \E row \in db :
          /\ row.uuid = request[1].pathway_key_str
          /\ Len(row.published_data.items) = 1
          /\ row.published_data.items[1].id = RequestItems[1].id
          /\ Len(row.draft_data.items) = 2
          /\ row.draft_data.items[1].id = RequestItems[1].id
          /\ row.draft_data.items[2].id # RequestItems[1].id

\* C23: the pathway that a successful create stores has a published document
\* without items, a successful PATCH leaves the published document of the
\* pathway as it was, and a step that changes the published document of a
\* stored pathway is a publish.
C23_PublishedChangesOnlyByPublish ==
    [][/\ Succeeds("create") =>
             \A row \in db' \ db : row.published_data.items = <<>>
       /\ Succeeds("patch") =>
             RowAfter.published_data = RowBefore.published_data
       /\ \A old \in db : \A new \in db' :
             (new.uuid = old.uuid /\ new.published_data # old.published_data)
                => Handling("publish")]_vars

\* A PATCH has given a pathway with published items another draft: the
\* published document still has the items the draft had before.
C23_Witness ==
    /\ Handled({"patch"})
    /\ response[1].status = 200
    /\ RequestHasItems
    /\ \E row \in db : /\ row.uuid = request[1].pathway_key_str
                       /\ row.published_data.items # <<>>
                       /\ Len(row.draft_data.items) # Len(row.published_data.items)

\* C24: a create, PATCH, publish or revert that is answered with anything but
\* 200 leaves the Pathway table as it was: the same rows with the same owner,
\* draft document and published document.
C24_RejectedWriteChangesNothing ==
    [][(/\ \E op \in {"create", "patch", "publish", "revert"} : Handling(op)
        /\ response' # None
        /\ response'[1].status # 200)
       => db' = db]_vars

\* A PATCH of a pathway whose draft has items was refused for its number of
\* items; the draft still has MaxItems items or fewer, all with an id.
C24_Witness ==
    /\ Handled({"patch"})
    /\ response[1].status = 400
    /\ response[1].detail = "Too many items in the pathway."
    /\ \E row \in db : /\ row.uuid = request[1].pathway_key_str
                       /\ row.draft_data.items # <<>>
                       /\ Len(row.draft_data.items) <= MaxItems

(***************************************************************************)
(* Properties of the resolution, checked under SpecResolve                 *)
(***************************************************************************)
\* The runtime's call of definition_for_usage has returned or raised.
Resolved == Handled({"definition_for_usage"})
ResolvedKey == request[1].usage_key
Resolution == response[1].result

\* The pathway of the key is stored.
PathwayIsStored == \E row \in db : row.uuid = ResolvedKey.pathway_uuid

\* The call is to read the draft: force_draft as given on the call, else the
\* use_draft the context was made with.
ReadsDraft ==
    IF request[1].force_draft # None THEN request[1].force_draft[1]
    ELSE request[1].use_draft = Some(TRUE)

\* The items of the document the context is to read: the draft or the
\* published document.
ChosenItems ==
    LET row == CHOOSE r \in db : r.uuid = ResolvedKey.pathway_uuid
    IN  IF ReadsDraft THEN row.draft_data.items ELSE row.published_data.items

\* The chosen document has an item with the item id of the key; stored ids
\* are unique, so it has one such item.
ItemIsFound ==
    /\ PathwayIsStored
    /\ \E i \in 1..Len(ChosenItems) : ChosenItems[i].id = ResolvedKey.usage_id
MatchedItem ==
    ChosenItems[CHOOSE i \in 1..Len(ChosenItems) :
                   ChosenItems[i].id = ResolvedKey.usage_id]
OriginalKey == UsageKeyFromString(MatchedItem.original_usage_id).val

\* What the resolver of the original's own learning context reports for the
\* original of the matched item.
BaseResolution ==
    IF OriginalKey.kind = "lib"
    THEN Ok(LibraryDefinitionForUsage(OriginalKey, bundleVersion))
    ELSE DefinitionForUsage(OriginalKey, None, None, db, bundleVersion, RecursionLimit)

\* The item is found and its original resolves to a definition.
ItemResolves ==
    /\ ItemIsFound
    /\ BaseResolution.ok
    /\ BaseResolution.val # None
BaseAddress == BaseResolution.val[1]

\* The version of the item itself: the stored version when there is one, else
\* the current version of the original.
ItemVersion ==
    IF MatchedItem.version # None THEN MatchedItem.version[1]
    ELSE BaseAddress.bundle_version

ReturnsAddress == Resolution.ok /\ Resolution.val # None
Address == Resolution.val[1]

\* C12: for a key without a descendant id whose item is found and whose
\* original resolves, definition_for_usage returns the base address of the
\* original: the same bundle, the same block type and the same path.
C12_TopLevelIsBaseAddress ==
    (Resolved /\ ResolvedKey.child_usage_id = None /\ ItemResolves) =>
        /\ ReturnsAddress
        /\ Address.bundle_uuid = BaseAddress.bundle_uuid
        /\ Address.block_type = BaseAddress.block_type
        /\ Address.olx_path = BaseAddress.olx_path

\* C13 as stated: for a key with a descendant id whose item resolves, the
\* address is in the bundle of the base address, has the block type of the
\* key and the version of the item, and its path is
\* <block_type>/<descendant_id>/definition.
C13_DescendantPathAsStated ==
    (Resolved /\ ResolvedKey.child_usage_id # None /\ ItemResolves) =>
        /\ ReturnsAddress
        /\ Address = [bundle_uuid |-> BaseAddress.bundle_uuid,
                      block_type |-> ResolvedKey.block_type,
                      olx_path |-> <<ResolvedKey.block_type,
                                     ResolvedKey.child_usage_id[1], "definition">>,
                      bundle_version |-> ItemVersion]

\* C13: for a key with a non-empty descendant id whose item resolves, the
\* address is in the bundle of the base address, has the block type of the
\* key and the version of the item, and its path is
\* <block_type>/<descendant_id>/definition.xml.
C13_DescendantAddress ==
    (Resolved /\ ResolvedKey.child_usage_id # None
        /\ ResolvedKey.child_usage_id[1] # "" /\ ItemResolves) =>
        /\ ReturnsAddress
        /\ Address = [bundle_uuid |-> BaseAddress.bundle_uuid,
                      block_type |-> ResolvedKey.block_type,
                      olx_path |-> <<ResolvedKey.block_type,
                                     ResolvedKey.child_usage_id[1], "definition.xml">>,
                      bundle_version |-> ItemVersion]

\* The descendant "child1" of an item whose stored version is not the current
\* one of its bundle has been resolved.
C13_Witness ==
    /\ Resolved /\ ItemResolves
    /\ ResolvedKey.child_usage_id = Some("child1")
    /\ MatchedItem.version # None
    /\ MatchedItem.version[1] # BaseAddress.bundle_version
    /\ ReturnsAddress
    /\ Address.olx_path # BaseAddress.olx_path

\* C14: when the pathway of the key is not stored, when the chosen document
\* has no item with the item id of the key, and when the resolver of the
\* original reports no definition, definition_for_usage returns None, whatever
\* the block type and the descendant id of the key.
C14_NotFoundIsNone ==
    (Resolved /\ (\/ ~PathwayIsStored
                  \/ ~ItemIsFound
                  \/ (BaseResolution.ok /\ BaseResolution.val = None)))
        => Resolution = Ok(None)

\* A descendant key was resolved against a document that has items but none
\* with the item id of the key.
C14_Witness ==
    /\ Resolved /\ PathwayIsStored /\ ~ItemIsFound
    /\ ChosenItems # <<>>
    /\ ResolvedKey.child_usage_id # None
    /\ Resolution = Ok(None)

\* C15: the address of an item that stores a version carries that version,
\* and the address of an item whose version is null carries the current
\* version that the resolver of the original reports.
C15_VersionSelection ==
    (Resolved /\ ItemResolves) =>
        /\ ReturnsAddress
        /\ MatchedItem.version # None =>
              Address.bundle_version = MatchedItem.version[1]
        /\ MatchedItem.version = None =>
              Address.bundle_version = BaseAddress.bundle_version

\* An item that stores version 1 was resolved after its library was published
\* again.
C15_Witness ==
    /\ Resolved /\ ItemResolves
    /\ MatchedItem.version = Some(1)
    /\ BaseAddress.bundle_version = 2
    /\ ReturnsAddress
    /\ Address.bundle_version = 1

\* The descendant that the key names is included in the original of the item
\* through a bundle link, so it lives in the bundle the link leads to.
NamesLinkedDescendant ==
    /\ ItemIsFound
    /\ OriginalKey.kind = "lib"
    /\ ResolvedKey.child_usage_id # None
    /\ \E inc \in ParsedIncludes(OriginalKey) :
          /\ inc.link_id # None
          /\ inc.block_type = ResolvedKey.block_type
          /\ inc.definition_id = ResolvedKey.child_usage_id[1]
          /\ BundleLink(OriginalKey.lib, inc.link_id[1]) # OriginalKey.lib

\* C16: for a key whose descendant lives in another bundle than the item,
\* definition_for_usage fails, and returns neither None nor an address.
C16_LinkedDescendantFails ==
    (Resolved /\ NamesLinkedDescendant) => ~Resolution.ok

(***************************************************************************)
(* Properties of usage_for_child_include, checked under SpecKeys           *)
(***************************************************************************)
\* usage_for_child_include has returned or raised; the parent is the key
\* parsed from keyInput.
ChildIncluded == keyKind = "child" /\ include # None
ParentUsage == PathwayUsageLocator_from_string(keyInput).val
IsLinked == include[1].link_id # None

\* C17: for a child that is included through a bundle link by a parent that is
\* a top-level item of the pathway, usage_for_child_include returns a key of
\* the parent's item.
C17_OneLinkLevelSupported ==
    (ChildIncluded /\ IsLinked /\ ParentUsage.child_usage_id = None) =>
        /\ keyResult[1].ok
        /\ keyResult[1].val.pathway_key = ParentUsage.pathway_key
        /\ keyResult[1].val.usage_id = ParentUsage.usage_id

\* C18: for a child included without a link, by a parent with or without a
\* child_usage_id, usage_for_child_include returns a key whenever the block
\* type of the child is one, and the key has the pathway and the item id of
\* the parent, the block type of the child, and the definition id of the
\* child as its child_usage_id.
C18_SameBundleChildKey ==
    (ChildIncluded /\ ~IsLinked) =>
        /\ CheckKeyStringField(include[1].block_type, DEFAULT_REGEXP) => keyResult[1].ok
        /\ keyResult[1].ok =>
              keyResult[1].val = [pathway_key |-> ParentUsage.pathway_key,
                                  block_type |-> include[1].block_type,
                                  usage_id |-> ParentUsage.usage_id,
                                  child_usage_id |-> Some(include[1].definition_id)]

\* A child of a parent that has another, non-empty child_usage_id got its key.
C18_Witness ==
    /\ ChildIncluded /\ ~IsLinked
    /\ ParentUsage.child_usage_id # None
    /\ Len(ParentUsage.child_usage_id[1]) > 0
    /\ ParentUsage.child_usage_id[1] # include[1].definition_id
    /\ ParentUsage.block_type # include[1].block_type
    /\ keyResult[1].ok
    /\ keyResult[1].val.child_usage_id = Some(include[1].definition_id)

(***************************************************************************)
(* Access control, checked under Spec                                      *)
(***************************************************************************)
RestOps == {"create", "get", "patch", "delete", "publish", "revert"}

\* C19: every REST operation of a user whose username is not in
\* LX_PATHWAY_PLUGIN_AUTHORIZED_USERNAMES is answered with 403
\* PermissionDenied, and leaves the rows of the Pathway table as they are.
C19_UnauthorizedRefused ==
    [][(/\ request # None
        /\ response = None
        /\ request[1].op \in RestOps
        /\ request[1].user.username \notin LX_PATHWAY_PLUGIN_AUTHORIZED_USERNAMES)
       => /\ response' # None
          /\ response'[1].status = 403
          /\ response'[1].exc = "PermissionDenied"
          /\ db' = db]_vars

\* The other user was refused the deletion of a pathway that is stored.
C19_Witness ==
    /\ Handled({"delete"})
    /\ request[1].user = OtherUser
    /\ \E row \in db : row.uuid = request[1].pathway_key_str
    /\ response[1].status = 403

(***************************************************************************)
(* Resolution as a function of what is stored, checked under SpecResolve   *)
(***************************************************************************)
\* The step is a call of definition_for_usage returning or raising.
ResolvesNow == Handling("definition_for_usage") /\ response' # None

WrittenRow ==
    IF request[1].op = "create" THEN CHOOSE row \in db' : row \notin db
    ELSE RowAfter

\* The item of a request asks for the version current at save time: it has
\* no version, or version 0.
AsksCurrentVersion(item) ==
    "version" \notin DOMAIN item \/ item.version = Some(0)

\* The published version of the bundle that the original of an item is in.
CurrentVersionOf(original_usage_id) ==
    bundleVersion[UsageKeyFromString(original_usage_id).val.lib]

\* C22: a successful create or PATCH stores every item that came with version
\* 0 or without a version at the version its original's bundle is published
\* at by then; a successful publish or revert copies the items with their
\* versions; publishing a library leaves the stored rows as they are; and a
\* resolution of an item that stores a version returns an address at that
\* version, whatever the bundle's version is by then.
C22_VersionFrozenAtSave ==
    [][/\ ((Succeeds("create") \/ Succeeds("patch")) /\ RequestHasItems) =>
             \A i \in 1..Len(RequestItems) :
                 AsksCurrentVersion(RequestItems[i]) =>
                     WrittenRow.draft_data.items[i].version =
                         Some(CurrentVersionOf(RequestItems[i].original_usage_id))
       /\ Succeeds("publish") =>
             RowAfter.published_data.items = RowBefore.draft_data.items
       /\ Succeeds("revert") =>
             RowAfter.draft_data.items = RowBefore.published_data.items
       /\ bundleVersion' # bundleVersion => db' = db
       /\ (ResolvesNow /\ ItemResolves /\ MatchedItem.version # None) =>
             /\ response'[1].result.ok
             /\ response'[1].result.val # None
             /\ response'[1].result.val[1].bundle_version = MatchedItem.version[1]
      ]_vars

\* An item saved at version 1 and copied by publish was resolved through the
\* published document after its library was published again, at version 1.
C22_Witness ==
    /\ Resolved /\ ItemResolves
    /\ ~ReadsDraft
    /\ MatchedItem.version = Some(1)
    /\ CurrentVersionOf(MatchedItem.original_usage_id) = 2
    /\ ReturnsAddress
    /\ Address.bundle_version = 1

\* C25: no item of a stored document has version 0 or less: the version is
\* null or positive; and a create or PATCH that reaches save with an item
\* asking for the current version of a bundle that was never published is
\* not answered with 200.
C25_NoStoredVersionZero ==
    /\ \A row \in db : \A doc \in Documents(row) : \A i \in 1..Len(doc.items) :
          doc.items[i].version = None \/ doc.items[i].version[1] > 0
    /\ (Handled({"create", "patch"}) /\ RequestHasItems /\ ReachesSave
          /\ \E i \in 1..Len(RequestItems) :
                /\ AsksCurrentVersion(RequestItems[i])
                /\ UsageKeyFromString(RequestItems[i].original_usage_id).ok
                /\ UsageKeyFromString(RequestItems[i].original_usage_id).val.kind = "lib"
                /\ CurrentVersionOf(RequestItems[i].original_usage_id) = 0)
       => response[1].status # 200

\* A create with an item of the library that was never published, its
\* version left to the default, was refused by the lookup of the version.
C25_Witness ==
    /\ Handled({"create"})
    /\ RequestHasItems
    /\ \E i \in 1..Len(RequestItems) :
          /\ AsksCurrentVersion(RequestItems[i])
          /\ RequestItems[i].original_usage_id = LIB_ALPHA
    /\ bundleVersion["lx-pathway-lib2"] = 0
    /\ response[1].exc = "ValueError"
    /\ db = {}

\* The usage key that the segments of a derived usage_id parse to.
KeyOfSegments(segments) ==
    [kind |-> "pathway", pathway_uuid |-> segments[1], block_type |-> segments[2],
     usage_id |-> segments[3],
     child_usage_id |-> IF Len(segments) > 3 THEN Some(segments[4]) ELSE None]

\* The usage_id derived for item i of a document of a row resolves, through
\* that document, to what the item itself resolves to: the search finds item
\* i, and for an item whose original is a library block the result is an
\* address, not None.
DerivedKeyFindsItem(row, draft, items, i) ==
    LET key == KeyOfSegments(GetUsageId(row, items[i]))
        result == DefinitionForUsage(key, Some(draft), None, db, bundleVersion,
                                     RecursionLimit)
    IN  /\ FirstItemWithId(items, key.usage_id) = i
        /\ result = FromItem(key, items[i],
                             UsageKeyFromString(items[i].original_usage_id),
                             db, bundleVersion, RecursionLimit)
        /\ UsageKeyFromString(items[i].original_usage_id).val.kind = "lib"
              => (result.ok /\ result.val # None)

\* The usage_id derived for item i of a document is made of the uuid of the
\* pathway, the block type of the item's original and the id of the item, and
\* the item is stored without it.
DerivedKeyAsStated(row, items, i) ==
    /\ GetUsageId(row, items[i])
         = <<row.uuid, UsageKeyFromString(items[i].original_usage_id).val.block_type,
             items[i].id>>
    /\ "usage_id" \notin DOMAIN items[i]

\* C26: for every item of every stored document the derived usage_id is the
\* key of the pathway's uuid, the block type of the item's original and the
\* item's id, without a descendant; no stored item has a usage_id field; and
\* resolving the derived key through the document of the item finds that
\* item.
C26_DerivedKeyResolvesToItem ==
    \A row \in db :
        /\ \A i \in 1..Len(row.draft_data.items) :
              /\ DerivedKeyAsStated(row, row.draft_data.items, i)
              /\ DerivedKeyFindsItem(row, TRUE, row.draft_data.items, i)
        /\ \A i \in 1..Len(row.published_data.items) :
              /\ DerivedKeyAsStated(row, row.published_data.items, i)
              /\ DerivedKeyFindsItem(row, FALSE, row.published_data.items, i)

\* The runtime has resolved the usage_id derived for the second item of a
\* draft to an address.
C26_Witness ==
    /\ Resolved /\ ItemIsFound /\ ReadsDraft
    /\ Len(ChosenItems) = 2
    /\ MatchedItem = ChosenItems[2]
    /\ \E row \in db : KeyOfSegments(GetUsageId(row, MatchedItem)) = ResolvedKey
    /\ ReturnsAddress

\* The items of the document the context is not to read.
OtherItems ==
    LET row == CHOOSE r \in db : r.uuid = ResolvedKey.pathway_uuid
    IN  IF ReadsDraft THEN row.published_data.items ELSE row.draft_data.items

\* C28: the result of definition_for_usage for a stored pathway is what the
\* items of the draft give when force_draft is given as true, or is not given
\* and the context was made with use_draft true, and what the items of the
\* published document give otherwise; a key whose item id is in none of these
\* items resolves to None, also when the other document has such an item.
C28_DocumentSelection ==
    (Resolved /\ PathwayIsStored) =>
        /\ Resolution =
              FromPathwayData(ResolvedKey, ChosenItems,
                              FirstItemWithId(ChosenItems, ResolvedKey.usage_id),
                              db, bundleVersion, RecursionLimit)
        /\ ~ItemIsFound => Resolution = Ok(None)

\* A context made with use_draft true was called with force_draft false for
\* an item that only the draft has: the result is None.
C28_Witness ==
    /\ Resolved /\ PathwayIsStored
    /\ request[1].use_draft = Some(TRUE)
    /\ request[1].force_draft = Some(FALSE)
    /\ ~ItemIsFound
    /\ \E i \in 1..Len(OtherItems) : OtherItems[i].id = ResolvedKey.usage_id
    /\ Resolution = Ok(None)

(***************************************************************************)
(* Concurrent writers, checked under SpecConcurrent                        *)
(***************************************************************************)
\* C20: whatever the order in which two handlers read the row of a pathway,
\* validate and write, the item ids of every stored document are pairwise
\* distinct and no stored document has more than MaxItems items.
C20_ConcurrentWritesStayValid ==
    \A row \in db :
        /\ IdsDistinct(row.draft_data.items)
        /\ IdsDistinct(row.published_data.items)
        /\ Len(row.draft_data.items) <= MaxItems
        /\ Len(row.published_data.items) <= MaxItems

\* A handler has written its pathway over a row that another handler had
\* changed after the first one read it, and the row holds a full document.
C20_Witness ==
    /\ \E w \in Writers :
          /\ writers[w].pc = "idle"
          /\ "overwrote" \in DOMAIN writers[w]
          /\ writers[w].overwrote
    /\ \E row \in db : Len(row.draft_data.items) = MaxItems

\* Writer w has completed op with a successful save.
HasSaved(w, ops) ==
    /\ writers[w].pc = "idle"
    /\ "op" \in DOMAIN writers[w]
    /\ writers[w].op \in ops

\* C27: once a PATCH of draft_data and a publish or revert of the same pathway
\* have both saved, one of them over a row that the other had changed after
\* the first one read it, the draft document of the row is the document that
\* the PATCH saved.
C27_NoLostDraftUpdate ==
    \A w1 \in Writers : \A w2 \in Writers \ {w1} :
        (/\ HasSaved(w1, {"patch"})
         /\ HasSaved(w2, {"publish", "revert"})
         /\ writers[w1].overwrote \/ writers[w2].overwrote)
        => \A row \in db : row.uuid = writers[w1].saved.uuid =>
               row.draft_data = writers[w1].saved.draft_data

====
